---------------------------- MODULE Spec2Model ----------------------------
(***************************************************************************)
(* Minesweeper (raylib), src/raylib c template/main.c.                     *)
(*                                                                         *)
(* The file holds two builds of the same game: the original program        *)
(* (lines 1-278, everything in main and RevealEmpty) and the refactored    *)
(* program (lines 281-724: HandleMouseInput, CheckWin, RevealEmptyCells).  *)
(* The variable build says which of the two is running.                    *)
(*                                                                         *)
(* The board is scaled down from the source's 9 x 9 with 10 mines to       *)
(* ROWS x COLS with MINES mines so that every mine layout and every        *)
(* sequence of clicks can be enumerated.                                   *)
(***************************************************************************)
EXTENDS Integers, FiniteSets, Sequences, TLC

\* ---------------------------------------------------------- constants
\* #define ROWS 9, COLS 9, MINES 10 (TOTAL_MINES in the refactored program),
\* scaled down to a 3 x 3 board with 2 mines.
ROWS == 3
COLS == 3
MINES == 2
CELL_SIZE == 60

\* ------------------------------------------------------------- bounds
\* At most this many cells carry a flag at the end of a frame.
MaxFlags == 1

VARIABLES
    build,                \* "original" | "refactored"
    mineCount,            \* the value MINES (TOTAL_MINES) is compiled with
    pc,                   \* "PlaceMines" | "CountNearbyMines" | "loop"
    placed,               \* PlaceMines' local counter
    board,                \* Cell board[ROWS][COLS]
    gameOver, win,        \* main's locals
    playedBoomSound, playedGameOverSound, playedWinSound,  \* play-once trackers
    plays,                \* how often PlaySound has played sBoom, sOver, sWin
    reveals               \* how many passes of the loop have revealed a cell

vars == <<build, mineCount, pc, placed, board, gameOver, win,
          playedBoomSound, playedGameOverSound, playedWinSound, plays, reveals>>

\* ------------------------------------------------------------ the grid
Cells == (0 .. ROWS - 1) \X (0 .. COLS - 1)

InBounds(row, col) == row >= 0 /\ row < ROWS /\ col >= 0 /\ col < COLS

\* The (dr, dc) pairs in the order of the nested for loops: dr outer, dc inner.
Offsets == << <<-1, -1>>, <<-1, 0>>, <<-1, 1>>,
              << 0, -1>>, << 0, 0>>, << 0, 1>>,
              << 1, -1>>, << 1, 0>>, << 1, 1>> >>

\* (int)(x / CELL_SIZE): the float quotient truncated toward zero.
TruncDiv(x, d) == IF x >= 0 THEN x \div d ELSE -((-x) \div d)

\* ------------------------------------------------------------- setup
InitializeBoard ==
    [cell \in Cells |->
        [revealed |-> FALSE, hasMine |-> FALSE, flagged |-> FALSE, nearbyMines |-> 0]]

\* Mutant: the iteration counts a mine even where one already lies.
PlaceOneUnchecked(b, n, r, c) ==
    [board |-> [b EXCEPT ![<<r, c>>].hasMine = TRUE], placed |-> n + 1]

\* Mutant: the iteration forgets placed++.
PlaceOneNoCount(b, n, r, c) ==
    [board |-> [b EXCEPT ![<<r, c>>].hasMine = TRUE], placed |-> n]

\* One iteration of PlaceMines' while loop with rand() % ROWS = r, rand() % COLS = c.
PlaceOne(b, n, r, c) ==
    IF ~b[<<r, c>>].hasMine
    THEN [board |-> [b EXCEPT ![<<r, c>>].hasMine = TRUE], placed |-> n + 1]
    ELSE [board |-> b, placed |-> n]

\* Mutant: the dc loop stops one short in the last row of neighbours.
NearbyCountShort(b, r, c) ==
    Cardinality({k \in 1 .. 8 :
        LET nr == r + Offsets[k][1]
            nc == c + Offsets[k][2]
        IN  InBounds(nr, nc) /\ b[<<nr, nc>>].hasMine})

\* The inner dr/dc loops of CountNearbyMines for one cell.
NearbyCount(b, r, c) ==
    Cardinality({k \in 1 .. 9 :
        LET nr == r + Offsets[k][1]
            nc == c + Offsets[k][2]
        IN  InBounds(nr, nc) /\ b[<<nr, nc>>].hasMine})

CountNearbyMines(b) ==
    [cell \in Cells |->
        IF b[cell].hasMine
        THEN b[cell]
        ELSE [b[cell] EXCEPT !.nearbyMines = NearbyCount(b, cell[1], cell[2])]]

\* ----------------------------------------------------- game mechanics
\* The sounds: PlaySound(sNumber), (sBoom), (sFlag), (sOver), (sWin).
Sounds == {"number", "boom", "flag", "over", "win"}

\* PlaySound(x): the sound is appended to what this frame has played so far.
PlaySound(s, x) == [s EXCEPT !.cues = Append(@, x)]

RECURSIVE RevealEmpty(_, _, _)
RECURSIVE RevealEmptyFrom(_, _, _, _)
RECURSIVE RevealEmptyFromIntoMines(_, _, _, _)
RECURSIVE RevealEmptyFromEager(_, _, _, _)
RECURSIVE RevealEmptyFromOneBranch(_, _, _, _)
RECURSIVE RevealEmptyFromAroundFlags(_, _, _, _)

\* Mutant: the cascade without its !hasMine test.
RevealEmptyFromIntoMines(s, row, col, k) ==
    IF k > 9 THEN s
    ELSE LET nr == row + Offsets[k][1]
             nc == col + Offsets[k][2]
         IN  IF InBounds(nr, nc) /\ ~s.board[<<nr, nc>>].revealed
             THEN LET s1 == PlaySound([s EXCEPT !.board[<<nr, nc>>].revealed = TRUE],
                                      "number")
                      s2 == IF s1.board[<<nr, nc>>].nearbyMines = 0
                            THEN RevealEmptyFromIntoMines(
                                     [s1 EXCEPT !.entered = Append(@, <<nr, nc>>)],
                                     nr, nc, 1)
                            ELSE s1
                  IN  RevealEmptyFromIntoMines(s2, row, col, k + 1)
             ELSE RevealEmptyFromIntoMines(s, row, col, k + 1)

\* Mutant: the cascade without its recursive call.
RevealEmptyFromFlat(s, row, col, k) ==
    LET hit == {cell \in Cells :
                   /\ \E j \in k .. 9 : cell = <<row + Offsets[j][1], col + Offsets[j][2]>>
                   /\ ~s.board[cell].hasMine /\ ~s.board[cell].revealed}
    IN  [s EXCEPT !.board = [cell \in Cells |->
                                IF cell \in hit
                                THEN [s.board[cell] EXCEPT !.revealed = TRUE]
                                ELSE s.board[cell]],
                  !.cues = @ \o [i \in 1 .. Cardinality(hit) |-> "number"]]

\* Mutant: the cascade recurses into every cell it reveals, numbered or not.
RevealEmptyFromEager(s, row, col, k) ==
    IF k > 9 THEN s
    ELSE LET nr == row + Offsets[k][1]
             nc == col + Offsets[k][2]
         IN  IF /\ InBounds(nr, nc)
                /\ ~s.board[<<nr, nc>>].revealed /\ ~s.board[<<nr, nc>>].hasMine
             THEN LET s1 == PlaySound([s EXCEPT !.board[<<nr, nc>>].revealed = TRUE],
                                      "number")
                      s2 == RevealEmptyFromEager(
                                [s1 EXCEPT !.entered = Append(@, <<nr, nc>>)], nr, nc, 1)
                  IN  RevealEmptyFromEager(s2, row, col, k + 1)
             ELSE RevealEmptyFromEager(s, row, col, k + 1)

\* Mutant: the cascade leaves flagged cells alone, as the click does.
RevealEmptyFromAroundFlags(s, row, col, k) ==
    IF k > 9 THEN s
    ELSE LET nr == row + Offsets[k][1]
             nc == col + Offsets[k][2]
         IN  IF /\ InBounds(nr, nc)
                /\ ~s.board[<<nr, nc>>].revealed /\ ~s.board[<<nr, nc>>].hasMine
                /\ ~s.board[<<nr, nc>>].flagged
             THEN LET s1 == PlaySound([s EXCEPT !.board[<<nr, nc>>].revealed = TRUE],
                                      "number")
                      s2 == IF s1.board[<<nr, nc>>].nearbyMines = 0
                            THEN RevealEmpty(s1, nr, nc)
                            ELSE s1
                  IN  RevealEmptyFromAroundFlags(s2, row, col, k + 1)
             ELSE RevealEmptyFromAroundFlags(s, row, col, k + 1)

\* Mutant: the loop returns after its first recursive call.
RevealEmptyFromOneBranch(s, row, col, k) ==
    IF k > 9 THEN s
    ELSE LET nr == row + Offsets[k][1]
             nc == col + Offsets[k][2]
         IN  IF /\ InBounds(nr, nc)
                /\ ~s.board[<<nr, nc>>].revealed /\ ~s.board[<<nr, nc>>].hasMine
             THEN LET s1 == PlaySound([s EXCEPT !.board[<<nr, nc>>].revealed = TRUE],
                                      "number")
                  IN  IF s1.board[<<nr, nc>>].nearbyMines = 0
                      THEN RevealEmpty(s1, nr, nc)
                      ELSE RevealEmptyFromOneBranch(s1, row, col, k + 1)
             ELSE RevealEmptyFromOneBranch(s, row, col, k + 1)

\* The loop of RevealEmpty from its k-th (dr, dc) iteration on.  s.board is
\* the board, s.cues the sounds played, s.entered the cells RevealEmpty has
\* been entered with.
RevealEmptyFrom(s, row, col, k) ==
    IF k > 9 THEN s
    ELSE LET nr == row + Offsets[k][1]
             nc == col + Offsets[k][2]
         IN  IF /\ InBounds(nr, nc)
                /\ ~s.board[<<nr, nc>>].revealed /\ ~s.board[<<nr, nc>>].hasMine
             THEN LET s1 == PlaySound([s EXCEPT !.board[<<nr, nc>>].revealed = TRUE],
                                      "number")
                      s2 == IF s1.board[<<nr, nc>>].nearbyMines = 0
                            THEN RevealEmpty(s1, nr, nc)
                            ELSE s1
                  IN  RevealEmptyFrom(s2, row, col, k + 1)
             ELSE RevealEmptyFrom(s, row, col, k + 1)

RevealEmpty(s, row, col) ==
    RevealEmptyFrom([s EXCEPT !.entered = Append(@, <<row, col>>)], row, col, 1)

\* Mutant: the loss shows only the mine that was clicked.
RevealNoOtherMine(b) == b

\* Mutant: the loss shows the mines and hides everything else.
RevealOnlyMines(b) ==
    [cell \in Cells |-> [b[cell] EXCEPT !.revealed = b[cell].hasMine]]

\* Mutant: the loss leaves the mines under a flag hidden.
RevealAllMinesButFlagged(b) ==
    [cell \in Cells |->
        IF b[cell].hasMine /\ ~b[cell].flagged
        THEN [b[cell] EXCEPT !.revealed = TRUE]
        ELSE b[cell]]

\* Mutant: showing a mine also takes its flag away.
RevealAllMinesUnflagged(b) ==
    [cell \in Cells |->
        IF b[cell].hasMine
        THEN [b[cell] EXCEPT !.revealed = TRUE, !.flagged = FALSE]
        ELSE b[cell]]

RevealAllMines(b) ==
    [cell \in Cells |->
        IF b[cell].hasMine THEN [b[cell] EXCEPT !.revealed = TRUE] ELSE b[cell]]

\* Mutant: the count forgets the !hasMine test.
RevealedCountWithMines(b) == Cardinality({cell \in Cells : b[cell].revealed})

\* The win check's counting loop.
RevealedCount(b) == Cardinality({cell \in Cells : b[cell].revealed /\ ~b[cell].hasMine})

\* ------------------------------------------------ the original program
\* What one pass of the loop works on, as one record: the board, main's
\* locals and the play-once trackers, with the sounds played (cues) and the
\* cells the cascade was entered with (entered) during this pass.
State ==
    [board |-> board, gameOver |-> gameOver, win |-> win,
     playedBoomSound |-> playedBoomSound,
     playedGameOverSound |-> playedGameOverSound,
     playedWinSound |-> playedWinSound,
     cues |-> <<>>, entered |-> <<>>]

\* if (!playedBoomSound) { PlaySound(sBoom); playedBoomSound = true; }
PlayBoomOnce(s) ==
    IF ~s.playedBoomSound
    THEN [PlaySound(s, "boom") EXCEPT !.playedBoomSound = TRUE] ELSE s

\* Mutant: the game-over sound without its play-once test.
PlayOverAlways(s) == [PlaySound(s, "over") EXCEPT !.playedGameOverSound = TRUE]

\* if (!playedGameOverSound) { PlaySound(sOver); playedGameOverSound = true; }
PlayOverOnce(s) ==
    IF ~s.playedGameOverSound
    THEN [PlaySound(s, "over") EXCEPT !.playedGameOverSound = TRUE] ELSE s

\* if (!playedWinSound) { PlaySound(sWin); playedWinSound = true; }
PlayWinOnce(s) ==
    IF ~s.playedWinSound
    THEN [PlaySound(s, "win") EXCEPT !.playedWinSound = TRUE] ELSE s

\* Mutant: the click on a mine forgets gameOver = true.
MainLeftClickGoesOn(s, row, col) ==
    IF InBounds(row, col)
       /\ ~s.board[<<row, col>>].flagged /\ ~s.board[<<row, col>>].revealed
    THEN LET s1 == [s EXCEPT !.board[<<row, col>>].revealed = TRUE]
         IN  IF s1.board[<<row, col>>].hasMine
             THEN PlayOverOnce(PlayBoomOnce(s1))
             ELSE LET s2 == PlaySound(s1, "number")
                  IN  IF s2.board[<<row, col>>].nearbyMines = 0
                      THEN RevealEmpty(s2, row, col)
                      ELSE s2
    ELSE s

\* Mutant: the left click without its !flagged test.
MainLeftClickThroughFlag(s, row, col) ==
    IF InBounds(row, col) /\ ~s.board[<<row, col>>].revealed
    THEN LET s1 == [s EXCEPT !.board[<<row, col>>].revealed = TRUE]
         IN  IF s1.board[<<row, col>>].hasMine
             THEN LET s2 == [PlayBoomOnce(s1) EXCEPT !.gameOver = TRUE]
                  IN  PlayOverOnce([s2 EXCEPT !.board = RevealAllMines(s2.board)])
             ELSE LET s2 == PlaySound(s1, "number")
                  IN  IF s2.board[<<row, col>>].nearbyMines = 0
                      THEN RevealEmpty(s2, row, col)
                      ELSE s2
    ELSE s

\* The body of if (IsMouseButtonPressed(MOUSE_LEFT_BUTTON)).
MainLeftClick(s, row, col) ==
    IF InBounds(row, col)
       /\ ~s.board[<<row, col>>].flagged /\ ~s.board[<<row, col>>].revealed
    THEN LET s1 == [s EXCEPT !.board[<<row, col>>].revealed = TRUE]
         IN  IF s1.board[<<row, col>>].hasMine
             THEN LET s2 == [PlayBoomOnce(s1) EXCEPT !.gameOver = TRUE]
                  IN  PlayOverOnce([s2 EXCEPT !.board = RevealAllMines(s2.board)])
             ELSE LET s2 == PlaySound(s1, "number")
                  IN  IF s2.board[<<row, col>>].nearbyMines = 0
                      THEN RevealEmpty(s2, row, col)
                      ELSE s2
    ELSE s

\* Mutant: the right click sets the flag instead of flipping it.
MainRightClickSetOnly(s, row, col) ==
    IF InBounds(row, col) /\ ~s.board[<<row, col>>].revealed
    THEN PlaySound([s EXCEPT !.board[<<row, col>>].flagged = TRUE], "flag")
    ELSE s

\* The body of if (IsMouseButtonPressed(MOUSE_RIGHT_BUTTON)).
MainRightClick(s, row, col) ==
    IF InBounds(row, col) /\ ~s.board[<<row, col>>].revealed
    THEN PlaySound([s EXCEPT !.board[<<row, col>>].flagged = ~@], "flag")
    ELSE s

\* Mutant: the win check also takes a board with every mine shown for won.
MainWinCheckOrAllMines(s) ==
    IF \/ RevealedCount(s.board) = ROWS * COLS - mineCount
       \/ \A cell \in Cells : s.board[cell].hasMine => s.board[cell].revealed
    THEN PlayWinOnce([s EXCEPT !.win = TRUE])
    ELSE s

MainWinCheck(s) ==
    IF RevealedCount(s.board) = ROWS * COLS - mineCount
    THEN PlayWinOnce([s EXCEPT !.win = TRUE])
    ELSE s

\* The else branch of the loop: the play-once fallbacks.
MainIdle(s) ==
    LET s1 == IF s.gameOver THEN PlayOverOnce(s) ELSE s
    IN  IF s1.win THEN PlayWinOnce(s1) ELSE s1

\* Mutant: the loop body without its !gameOver && !win gate.
MainFrameUngated(s, mouse, left, right) ==
    LET col == TruncDiv(mouse[1], CELL_SIZE)
        row == TruncDiv(mouse[2], CELL_SIZE)
        s1 == IF left THEN MainLeftClick(s, row, col) ELSE s
        s2 == IF right THEN MainRightClick(s1, row, col) ELSE s1
    IN  MainWinCheck(s2)

\* One pass of main's while loop with the mouse at pixel mouse = <<x, y>>.
MainFrame(s, mouse, left, right) ==
    IF ~s.gameOver /\ ~s.win
    THEN LET col == TruncDiv(mouse[1], CELL_SIZE)
             row == TruncDiv(mouse[2], CELL_SIZE)
             s1 == IF left THEN MainLeftClick(s, row, col) ELSE s
             s2 == IF right THEN MainRightClick(s1, row, col) ELSE s1
         IN  MainWinCheck(s2)
    ELSE MainIdle(s)

\* ---------------------------------------------- the refactored program
\* The refactored program's trackers playedBoom, playedGameOver, playedWin
\* are the fields playedBoomSound, playedGameOverSound, playedWinSound.
RECURSIVE RevealEmptyCells(_, _, _)
RECURSIVE RevealEmptyCellsFrom(_, _, _, _)

\* The loop of RevealEmptyCells from its k-th (dr, dc) iteration on: it
\* plays no sound.
RevealEmptyCellsFrom(s, row, col, k) ==
    IF k > 9 THEN s
    ELSE LET nr == row + Offsets[k][1]
             nc == col + Offsets[k][2]
         IN  IF /\ InBounds(nr, nc)
                /\ ~s.board[<<nr, nc>>].revealed /\ ~s.board[<<nr, nc>>].hasMine
             THEN LET s1 == [s EXCEPT !.board[<<nr, nc>>].revealed = TRUE]
                      s2 == IF s1.board[<<nr, nc>>].nearbyMines = 0
                            THEN RevealEmptyCells(s1, nr, nc)
                            ELSE s1
                  IN  RevealEmptyCellsFrom(s2, row, col, k + 1)
             ELSE RevealEmptyCellsFrom(s, row, col, k + 1)

RevealEmptyCells(s, row, col) ==
    RevealEmptyCellsFrom([s EXCEPT !.entered = Append(@, <<row, col>>)], row, col, 1)

HandleLeftClick(s, row, col) ==
    IF InBounds(row, col)
       /\ ~s.board[<<row, col>>].flagged /\ ~s.board[<<row, col>>].revealed
    THEN LET s1 == [s EXCEPT !.board[<<row, col>>].revealed = TRUE]
         IN  IF s1.board[<<row, col>>].hasMine
             THEN LET s2 == [PlayBoomOnce(s1) EXCEPT !.gameOver = TRUE]
                  IN  PlayOverOnce([s2 EXCEPT !.board = RevealAllMines(s2.board)])
             ELSE LET s2 == PlaySound(s1, "number")
                  IN  IF s2.board[<<row, col>>].nearbyMines = 0
                      THEN RevealEmptyCells(s2, row, col)
                      ELSE s2
    ELSE s

HandleRightClick(s, row, col) ==
    IF InBounds(row, col) /\ ~s.board[<<row, col>>].revealed
    THEN PlaySound([s EXCEPT !.board[<<row, col>>].flagged = ~@], "flag")
    ELSE s

HandleMouseInput(s, mouse, left, right) ==
    LET col == TruncDiv(mouse[1], CELL_SIZE)
        row == TruncDiv(mouse[2], CELL_SIZE)
        s1 == IF left THEN HandleLeftClick(s, row, col) ELSE s
    IN  IF right THEN HandleRightClick(s1, row, col) ELSE s1

CheckWin(b) ==
    Cardinality({cell \in Cells : b[cell].revealed /\ ~b[cell].hasMine})
        = ROWS * COLS - mineCount

\* One pass of the refactored main's while loop.
RefactoredMainFrame(s, mouse, left, right) ==
    IF ~s.gameOver /\ ~s.win
    THEN LET s1 == HandleMouseInput(s, mouse, left, right)
         IN  IF CheckWin(s1.board)
             THEN PlayWinOnce([s1 EXCEPT !.win = TRUE])
             ELSE s1
    ELSE s

\* -------------------------------------------------------------- inputs
\* Mouse positions in pixels: the middle of every cell, and four points
\* that map to row -1, row ROWS (the status bar), column -1 and column COLS.
MousePoints ==
    {<<c * CELL_SIZE + CELL_SIZE \div 2, r * CELL_SIZE + CELL_SIZE \div 2>> :
        r \in 0 .. ROWS - 1, c \in 0 .. COLS - 1}
    \cup {<<CELL_SIZE \div 2, -CELL_SIZE>>, <<CELL_SIZE \div 2, ROWS * CELL_SIZE>>,
          <<-CELL_SIZE, CELL_SIZE \div 2>>, <<COLS * CELL_SIZE, CELL_SIZE \div 2>>}

\* What one frame reads: GetMousePosition and the two IsMouseButtonPressed.
\* A frame with no button pressed does not use the position: one stands for all.
NoInput == [mouse |-> <<0, 0>>, left |-> FALSE, right |-> FALSE]

Inputs ==
    {[mouse |-> m, left |-> l, right |-> r] :
        m \in MousePoints, l \in BOOLEAN, r \in {TRUE}}
    \cup {[mouse |-> m, left |-> TRUE, right |-> FALSE] : m \in MousePoints}
    \cup {NoInput}

FlagCount(b) == Cardinality({cell \in Cells : b[cell].flagged})

\* ------------------------------------------------------------- actions
\* How often the sound x occurs in a sequence of cues.
Times(cues, x) == Cardinality({i \in 1 .. Len(cues) : cues[i] = x})

\* The state at the call of PlaceMines of a build compiled with n mines.
InitWith(n) ==
    /\ build \in {"original", "refactored"}
    /\ mineCount = n
    /\ plays = [x \in {"boom", "over", "win"} |-> 0]
    /\ reveals = 0
    /\ pc = "PlaceMines"
    /\ placed = 0
    /\ board = InitializeBoard
    /\ gameOver = FALSE
    /\ win = FALSE
    /\ playedBoomSound = FALSE
    /\ playedGameOverSound = FALSE
    /\ playedWinSound = FALSE

Init == InitWith(MINES)

PlaceMinesStep(r, c) ==
    /\ pc = "PlaceMines"
    /\ placed < mineCount
    /\ LET p == PlaceOne(board, placed, r, c)
       IN  /\ board' = p.board
           /\ placed' = p.placed
    /\ UNCHANGED <<build, mineCount, pc, gameOver, win,
                   playedBoomSound, playedGameOverSound, playedWinSound, plays, reveals>>

PlaceMinesReturn ==
    /\ pc = "PlaceMines"
    /\ ~(placed < mineCount)
    /\ pc' = "CountNearbyMines"
    /\ UNCHANGED <<build, mineCount, placed, board, gameOver, win,
                   playedBoomSound, playedGameOverSound, playedWinSound, plays, reveals>>

CountNearbyMinesStep ==
    /\ pc = "CountNearbyMines"
    /\ board' = CountNearbyMines(board)
    /\ gameOver' = FALSE
    /\ win' = FALSE
    /\ pc' = "loop"
    /\ UNCHANGED <<build, mineCount, placed,
                   playedBoomSound, playedGameOverSound, playedWinSound, plays, reveals>>

SetState(s) ==
    /\ board' = s.board
    /\ gameOver' = s.gameOver
    /\ win' = s.win
    /\ playedBoomSound' = s.playedBoomSound
    /\ playedGameOverSound' = s.playedGameOverSound
    /\ playedWinSound' = s.playedWinSound
    /\ plays' = [x \in DOMAIN plays |-> plays[x] + Times(s.cues, x)]
    /\ reveals' = IF \E cell \in Cells : s.board[cell].revealed # board[cell].revealed
                  THEN reveals + 1
                  ELSE reveals

\* A pass of the original loop while the game is on: the input is read.
\* The pass is taken under every input of Inputs; inputs under which it
\* ends the same way give the same step.
OriginalFrame ==
    /\ pc = "loop"
    /\ build = "original"
    /\ ~gameOver /\ ~win
    /\ \E s \in {MainFrame(State, in.mouse, in.left, in.right) : in \in Inputs} :
          /\ FlagCount(s.board) <= MaxFlags
          /\ SetState(s)
    /\ UNCHANGED <<build, mineCount, pc, placed>>

\* A pass of the original loop after the game has ended: no input is read.
OriginalEndedFrame ==
    /\ pc = "loop"
    /\ build = "original"
    /\ gameOver \/ win
    /\ SetState(MainFrame(State, NoInput.mouse, NoInput.left, NoInput.right))
    /\ UNCHANGED <<build, mineCount, pc, placed>>

RefactoredFrame ==
    /\ pc = "loop"
    /\ build = "refactored"
    /\ ~gameOver /\ ~win
    /\ \E s \in {RefactoredMainFrame(State, in.mouse, in.left, in.right) : in \in Inputs} :
          /\ FlagCount(s.board) <= MaxFlags
          /\ SetState(s)
    /\ UNCHANGED <<build, mineCount, pc, placed>>

RefactoredEndedFrame ==
    /\ pc = "loop"
    /\ build = "refactored"
    /\ gameOver \/ win
    /\ SetState(RefactoredMainFrame(State, NoInput.mouse, NoInput.left, NoInput.right))
    /\ UNCHANGED <<build, mineCount, pc, placed>>

Next ==
    \/ \E r \in 0 .. ROWS - 1, c \in 0 .. COLS - 1 : PlaceMinesStep(r, c)
    \/ PlaceMinesReturn
    \/ CountNearbyMinesStep
    \/ OriginalFrame
    \/ OriginalEndedFrame
    \/ RefactoredFrame
    \/ RefactoredEndedFrame

Spec == Init /\ [][Next]_vars

\* The game loop on its own, from each state setup can hand over to it:
\* any MINES distinct cells mined, the counts computed, nothing revealed or
\* flagged, no sound played.
Layouts == {S \in SUBSET Cells : Cardinality(S) = MINES}

PlayInit ==
    \E S \in Layouts :
        /\ build \in {"original", "refactored"}
        /\ mineCount = MINES
        /\ plays = [x \in {"boom", "over", "win"} |-> 0]
        /\ reveals = 0
        /\ pc = "loop"
        /\ placed = MINES
        /\ board = CountNearbyMines(
                       [cell \in Cells |->
                           [InitializeBoard[cell] EXCEPT !.hasMine = cell \in S]])
        /\ gameOver = FALSE
        /\ win = FALSE
        /\ playedBoomSound = FALSE
        /\ playedGameOverSound = FALSE
        /\ playedWinSound = FALSE

PlayNext ==
    \/ OriginalFrame
    \/ OriginalEndedFrame
    \/ RefactoredFrame
    \/ RefactoredEndedFrame

PlaySpec == PlayInit /\ [][PlayNext]_vars

\* The program built with other values of MINES: below the valid range,
\* the valid value, and at and above ROWS*COLS.
MineCounts == {-1, 0, MINES, ROWS * COLS, ROWS * COLS + 1}

ConfigInit == \E n \in MineCounts : InitWith(n)

ConfigSpec == ConfigInit /\ [][Next]_vars

\* Setup runs to its end: rand() does not return a mined cell for ever, and
\* the calls of main's setup are made one after the other.  The game loop
\* itself may stop at any frame (WindowShouldClose).
FairSpec ==
    /\ Spec
    /\ WF_vars(\E r \in 0 .. ROWS - 1, c \in 0 .. COLS - 1 : PlaceMinesStep(r, c))
    /\ WF_vars(PlaceMinesReturn)
    /\ WF_vars(CountNearbyMinesStep)

\* ------------------------------------------------- shared vocabulary
Playing == pc = "loop" /\ ~gameOver /\ ~win

Mined(b) == {cell \in Cells : b[cell].hasMine}
Shown(b) == {cell \in Cells : b[cell].revealed}

\* The pixel in the middle of a cell <<row, col>>.
PointAt(cell) ==
    <<cell[2] * CELL_SIZE + CELL_SIZE \div 2, cell[1] * CELL_SIZE + CELL_SIZE \div 2>>

\* The cell coordinates the loop computes from a mouse position.
RowOf(mouse) == TruncDiv(mouse[2], CELL_SIZE)
ColOf(mouse) == TruncDiv(mouse[1], CELL_SIZE)

\* One pass of the loop of the build that is running.
Frame(s, mouse, left, right) ==
    IF build = "original"
    THEN MainFrame(s, mouse, left, right)
    ELSE RefactoredMainFrame(s, mouse, left, right)

\* The cascade of the build that is running.
Cascade(s, row, col) ==
    IF build = "original"
    THEN RevealEmpty(s, row, col)
    ELSE RevealEmptyCells(s, row, col)

\* What the cascade works on when it is looked at by itself: the board.
OnBoard == [board |-> board, cues |-> <<>>, entered |-> <<>>]

Adjacent(a, b) ==
    /\ a # b
    /\ a[1] - b[1] \in -1 .. 1
    /\ a[2] - b[2] \in -1 .. 1

SamePhase(s) == s.gameOver = gameOver /\ s.win = win

\* ----------------------------------------------------------------- C1
\* C1: while the game is Playing, a left click on a hidden, unflagged, mined
\* cell (with or without a right click in the same frame) ends the frame
\* with gameOver set, every mined cell revealed, and every safe cell that
\* was hidden before the click still hidden.
C1_MineClickLoses ==
    Playing =>
        \A cell \in Cells :
            (board[cell].hasMine /\ ~board[cell].revealed /\ ~board[cell].flagged) =>
                \A right \in BOOLEAN :
                    LET s == Frame(State, PointAt(cell), TRUE, right)
                    IN  /\ s.gameOver
                        /\ \A m \in Mined(board) : s.board[m].revealed
                        /\ \A c \in Cells \ Mined(board) :
                              ~board[c].revealed => ~s.board[c].revealed

\* A lost game: both mines shown, one of them under a flag-free click, and
\* a safe cell still hidden.
C1_Witness ==
    /\ pc = "loop" /\ gameOver
    /\ \A m \in Mined(board) : board[m].revealed
    /\ \E c \in Cells \ Mined(board) : ~board[c].revealed
    /\ \E c \in Cells \ Mined(board) : board[c].revealed

\* ----------------------------------------------------------------- C2
\* C2: at the end of every frame the win flag is set if and only if the
\* number of revealed safe cells equals ROWS*COLS - MINES.
C2_WinIffAllSafeRevealed ==
    pc = "loop" =>
        (win <=> Cardinality(Shown(board) \ Mined(board)) = ROWS * COLS - MINES)

C2_Witness ==
    /\ pc = "loop" /\ win
    /\ Shown(board) = Cells \ Mined(board)

\* ----------------------------------------------------------------- C3
\* C3: once gameOver or win is set, no frame, whatever the mouse position
\* and buttons, changes any cell or the two flags, and no step of the
\* program does; and in the frame whose left click ends the game, a right
\* click pressed in that same frame changes nothing either.
C3_EndedFramesChangeNothing ==
    pc = "loop" =>
        /\ (gameOver \/ win) =>
              \A m \in MousePoints, left \in BOOLEAN, right \in BOOLEAN :
                  LET s == Frame(State, m, left, right)
                  IN  s.board = board /\ SamePhase(s)
        /\ Playing =>
              \A m \in MousePoints :
                  LET s == Frame(State, m, TRUE, FALSE)
                  IN  (s.gameOver \/ s.win) => Frame(State, m, TRUE, TRUE) = s

C3_TerminalStep ==
    (pc = "loop" /\ (gameOver \/ win)) =>
        (board' = board /\ gameOver' = gameOver /\ win' = win /\ pc' = pc)

C3_Terminal == []C3_EndedFramesChangeNothing /\ [][C3_TerminalStep]_vars

\* A lost game in which a click could still find a target: a hidden cell
\* without a flag and a hidden cell with one.
C3_Witness ==
    /\ pc = "loop" /\ gameOver
    /\ \E c \in Cells : ~board[c].revealed /\ ~board[c].flagged
    /\ \E c \in Cells : ~board[c].revealed /\ board[c].flagged

\* ----------------------------------------------------------------- C4
\* C4: no cell is ever both revealed and flagged (a cell is revealed only
\* if it carries no flag at that time).
C4_NoRevealedFlaggedCell ==
    \A cell \in Cells : ~(board[cell].revealed /\ board[cell].flagged)

\* ----------------------------------------------------------------- C5
\* C5: while the game is not lost no mined cell is revealed, and the
\* cascade (RevealEmpty / RevealEmptyCells) started from any cell of such a
\* board, zero-count or not, reveals no mined cell.
C5_CascadeRevealsNoMine ==
    (pc = "loop" /\ ~gameOver) =>
        /\ Mined(board) \cap Shown(board) = {}
        /\ \A cell \in Cells :
              Mined(board) \cap Shown(Cascade(OnBoard, cell[1], cell[2]).board) = {}

\* A cascade has run next to a mine: a revealed zero-count cell, a revealed
\* numbered cell, and the game still on.
C5_Witness ==
    /\ Playing
    /\ \E z \in Cells : board[z].revealed /\ ~board[z].hasMine /\ board[z].nearbyMines = 0
    /\ \E n \in Cells : board[n].revealed /\ board[n].nearbyMines > 0

\* ----------------------------------------------------------------- C6
\* The reference flood fill: the zero-count safe cells reachable from the
\* cells of S through 8-adjacent zero-count safe cells ...
RECURSIVE ZeroChain(_, _)
ZeroChain(b, S) ==
    LET more == {n \in Cells \ S :
                    /\ ~b[n].hasMine /\ b[n].nearbyMines = 0
                    /\ \E z \in S : Adjacent(z, n)}
    IN  IF more = {} THEN S ELSE ZeroChain(b, S \cup more)

\* ... and the ring of numbered safe cells around that chain.
FloodFill(b, cell) ==
    LET chain == ZeroChain(b, {cell})
    IN  chain \cup {n \in Cells :
                       /\ ~b[n].hasMine /\ b[n].nearbyMines # 0
                       /\ \E z \in chain : Adjacent(z, n)}

C7_RevealNoOp ==
    pc = "loop" =>
        \A m \in MousePoints :
            LET row == RowOf(m)
                col == ColOf(m)
                s == Frame(State, m, TRUE, FALSE)
            IN  (\/ ~InBounds(row, col)
                 \/ gameOver \/ win
                 \/ board[<<row, col>>].revealed
                 \/ board[<<row, col>>].flagged)
                => (s.board = board /\ SamePhase(s))

\* A game in progress with a revealed cell and a flagged cell to click on.
C7_Witness ==
    /\ Playing
    /\ \E c \in Cells : board[c].revealed
    /\ \E c \in Cells : board[c].flagged /\ ~board[c].revealed

\* ----------------------------------------------------------------- C8
\* C8: while Playing, a right click on a hidden in-bounds cell flips that
\* cell's flagged field and changes nothing else, a second right click on
\* it restores the board; on a revealed cell or outside the grid a right
\* click changes nothing.
C8_ToggleFlag ==
    Playing =>
        \A m \in MousePoints :
            LET row == RowOf(m)
                col == ColOf(m)
                s == Frame(State, m, FALSE, TRUE)
            IN  IF InBounds(row, col) /\ ~board[<<row, col>>].revealed
                THEN /\ s.board = [board EXCEPT ![<<row, col>>].flagged = ~@]
                     /\ SamePhase(s)
                     /\ Frame(s, m, FALSE, TRUE).board = board
                ELSE s.board = board /\ SamePhase(s)

\* A game in progress with a flag set on a mine, a hidden cell without a
\* flag and a revealed cell.
C8_Witness ==
    /\ Playing
    /\ \E c \in Mined(board) : board[c].flagged
    /\ \E c \in Cells : ~board[c].flagged /\ ~board[c].revealed
    /\ \E c \in Cells : board[c].revealed

\* ----------------------------------------------------------------- C9
\* C9: when setup hands over to the game loop exactly MINES cells are
\* mined and every cell is unrevealed and unflagged; afterwards the set of
\* mined cells never changes, so it always has exactly MINES cells.
C9_SetupDone ==
    (pc # "loop" /\ pc' = "loop") =>
        /\ Cardinality(Mined(board')) = MINES
        /\ \A cell \in Cells : ~board'[cell].revealed /\ ~board'[cell].flagged

C9_MinesFixed == pc = "loop" => Mined(board') = Mined(board)

C9_MineCount == pc = "loop" => Cardinality(Mined(board)) = MINES

C9_ExactlyMinesMined ==
    []C9_MineCount /\ [][C9_SetupDone /\ C9_MinesFixed]_vars

C9_Witness ==
    /\ pc = "loop"
    /\ Cardinality(Mined(board)) = MINES
    /\ \E c \in Cells : board[c].revealed
    /\ \E c \in Cells : board[c].flagged

\* ---------------------------------------------------------------- C10
\* The number of mined cells among the in-bounds 8-neighbours of a cell.
MinedNeighbours(b, cell) ==
    Cardinality({n \in Cells : Adjacent(cell, n) /\ b[n].hasMine})

\* C10: after CountNearbyMines every safe cell's nearbyMines is the number
\* of mined cells among its in-bounds 8-neighbours, a value in 0..8, and no
\* later step changes any cell's nearbyMines.
C10_CountsRight ==
    pc = "loop" =>
        \A cell \in Cells \ Mined(board) :
            /\ board[cell].nearbyMines = MinedNeighbours(board, cell)
            /\ board[cell].nearbyMines \in 0 .. 8

C10_CountsFixed ==
    pc = "loop" => \A cell \in Cells : board'[cell].nearbyMines = board[cell].nearbyMines

C10_NearbyMines == []C10_CountsRight /\ [][C10_CountsFixed]_vars

\* A board on which the counts 0, 1 and MINES all occur, some clicks later.
C10_Witness ==
    /\ pc = "loop"
    /\ \E c \in Cells \ Mined(board) : board[c].nearbyMines = 0
    /\ \E c \in Cells \ Mined(board) : board[c].nearbyMines = 1
    /\ \E c \in Cells \ Mined(board) : board[c].nearbyMines = MINES
    /\ \E c \in Cells : board[c].revealed

\* ---------------------------------------------------------------- C11
\* C11: in the game loop the explosion sound, the game-over sound and the
\* win sound have each been played at most once; once gameOver is set the
\* explosion and game-over sounds have been played exactly once, once win
\* is set the win sound has been played exactly once, and a further frame
\* of an ended game plays none of the three.
C11_CuesOnce ==
    pc = "loop" =>
        /\ \A x \in DOMAIN plays : plays[x] <= 1
        /\ gameOver => (plays["boom"] = 1 /\ plays["over"] = 1)
        /\ win => plays["win"] = 1
        /\ (gameOver \/ win) =>
              \A x \in DOMAIN plays :
                  Times(Frame(State, NoInput.mouse, NoInput.left, NoInput.right).cues, x) = 0

\* A lost game whose trackers are all set by the loss itself: the mine was
\* clicked while a flag stood on the board.
C11_Witness ==
    /\ pc = "loop" /\ gameOver
    /\ plays = [x \in {"boom", "over", "win"} |-> IF x = "win" THEN 0 ELSE 1]
    /\ playedBoomSound /\ playedGameOverSound
    /\ \E c \in Cells : board[c].flagged

\* ---------------------------------------------------------------- C12
\* C12: while Playing, a frame with a left click plays the number sound
\* exactly once for each safe cell that the click and its cascade change
\* from hidden to revealed: k newly revealed safe cells give k number
\* sounds, and a click that reveals nothing gives none.
C12_RevealCuePerCell ==
    Playing =>
        \A m \in MousePoints :
            LET s == Frame(State, m, TRUE, FALSE)
            IN  Times(s.cues, "number")
                    = Cardinality((Shown(s.board) \ Shown(board)) \ Mined(board))

\* ---------------------------------------------------------------- C13
\* What the two programs are compared on: the board, the two flags and the
\* play-once trackers ...
SameGame(s, t) ==
    /\ s.board = t.board
    /\ s.gameOver = t.gameOver /\ s.win = t.win
    /\ s.playedBoomSound = t.playedBoomSound
    /\ s.playedGameOverSound = t.playedGameOverSound
    /\ s.playedWinSound = t.playedWinSound

\* ... and the sounds played, in order.
SameSounds(s, t) == s.cues = t.cues

\* C13: from every state of the game loop and for every mouse position and
\* button combination, one pass of the original loop and one pass of the
\* refactored loop end with the same board, the same gameOver and win, the
\* same trackers, and have played the same sequence of sounds; so from the
\* same mine layout and under the same clicks the two programs stay in
\* step frame after frame.
C13_RefactoredIsOriginal ==
    pc = "loop" =>
        \A in \in Inputs :
            LET o == MainFrame(State, in.mouse, in.left, in.right)
                r == RefactoredMainFrame(State, in.mouse, in.left, in.right)
            IN  SameGame(o, r) /\ SameSounds(o, r)

\* ---------------------------------------------------------------- C14
\* C14: with 0 < MINES < ROWS*COLS and rand() not returning mined cells for
\* ever, PlaceMines returns, and it returns only with exactly MINES
\* distinct cells mined (its counter placed equal to MINES).
C14_ReturnsOnlyWhenDone ==
    (pc = "PlaceMines" /\ pc' # "PlaceMines") =>
        /\ placed = MINES
        /\ Cardinality(Mined(board)) = MINES
        /\ board' = board

C14_PlaceMinesTerminates ==
    /\ <>(pc # "PlaceMines")
    /\ [][C14_ReturnsOnlyWhenDone]_vars

\* PlaceMines has just returned with its MINES mines placed.
C14_Witness ==
    /\ pc = "CountNearbyMines"
    /\ placed = MINES
    /\ Cardinality(Mined(board)) = MINES

\* ---------------------------------------------------------------- C15
\* C15: while Playing, for a left click on any hidden, unflagged safe cell
\* the cascade finishes; the cells RevealEmpty / RevealEmptyCells is
\* entered with are pairwise distinct, each a safe cell with
\* nearbyMines = 0 that was hidden before the click; and the frame ends
\* with at most ROWS*COLS - MINES cells revealed.
C15_CascadeTerminates ==
    Playing =>
        \A cell \in Cells :
            (~board[cell].hasMine /\ ~board[cell].revealed /\ ~board[cell].flagged) =>
                LET s == Frame(State, PointAt(cell), TRUE, FALSE)
                    n == Len(s.entered)
                IN  /\ \A i, j \in 1 .. n : s.entered[i] = s.entered[j] => i = j
                    /\ \A i \in 1 .. n :
                          /\ s.entered[i] \in Cells
                          /\ ~board[s.entered[i]].hasMine
                          /\ board[s.entered[i]].nearbyMines = 0
                          /\ ~board[s.entered[i]].revealed
                    /\ (n > 0) <=> (board[cell].nearbyMines = 0)
                    /\ Cardinality(Shown(s.board)) <= ROWS * COLS - MINES

\* A cascade that was entered with three cells: three revealed zero-count
\* safe cells in a game that is still on.
C15_Witness ==
    /\ Playing
    /\ Cardinality({z \in Cells : /\ board[z].revealed /\ ~board[z].hasMine
                                  /\ board[z].nearbyMines = 0}) >= 3
    /\ \E h \in Cells \ Mined(board) : ~board[h].revealed

\* ---------------------------------------------------------------- C16
\* C16: no step of the program (a reveal, its cascade, a flag toggle, the
\* showing of the mines on a loss, an idle frame) changes a cell's revealed
\* field from true to false.
C16_StaysRevealed ==
    \A cell \in Cells : board[cell].revealed => board'[cell].revealed

C16_RevealedIrreversible == [][C16_StaysRevealed]_vars

\* A lost game in which each kind of step has acted: a revealed numbered
\* cell, a revealed zero-count cell, the mines shown, and a flag.
C16_Witness ==
    /\ pc = "loop" /\ gameOver
    /\ \E c \in Cells \ Mined(board) : board[c].revealed /\ board[c].nearbyMines > 0
    /\ \E c \in Cells \ Mined(board) : board[c].revealed /\ board[c].nearbyMines = 0
    /\ \A m \in Mined(board) : board[m].revealed
    /\ \E c \in Cells : board[c].flagged

\* ---------------------------------------------------------------- C17
\* The configurations the specification calls invalid.
InvalidConfig ==
    mineCount <= 0 \/ mineCount >= ROWS * COLS \/ ROWS <= 0 \/ COLS <= 0

\* C17: with an invalid configuration setup fails before any mine is
\* placed: no cell is ever mined and the game loop is never entered.
C17_InvalidConfigRejected ==
    InvalidConfig => (Mined(board) = {} /\ pc # "loop")

\* ---------------------------------------------------------------- C18
\* Orders of visiting the 3 x 3 block around a cell, as permutations of the
\* indexes of Offsets: backwards, column by column, clockwise from the top
\* left with the centre last, and the centre first.
Backwards == <<9, 8, 7, 6, 5, 4, 3, 2, 1>>
ByColumn == <<1, 4, 7, 2, 5, 8, 3, 6, 9>>
Clockwise == <<1, 2, 3, 6, 9, 8, 7, 4, 5>>
CentreFirst == <<5, 2, 4, 6, 8, 1, 3, 7, 9>>

\* A visiting discipline gives every cell its order: cell <<row, col>> uses
\* the (row * COLS + col)-th order of the sequence, cyclically.
VisitOrders ==
    {<<Backwards>>, <<ByColumn>>, <<Clockwise>>, <<CentreFirst>>,
     <<Backwards, ByColumn>>, <<Clockwise, CentreFirst, ByColumn>>}

\* The cascade of the source with the neighbours visited as ords says.
RECURSIVE RevealInOrder(_, _, _, _, _)
RevealInOrder(ords, b, row, col, k) ==
    IF k > 9 THEN b
    ELSE LET ord == ords[((row * COLS + col) % Len(ords)) + 1]
             nr == row + Offsets[ord[k]][1]
             nc == col + Offsets[ord[k]][2]
         IN  IF InBounds(nr, nc) /\ ~b[<<nr, nc>>].revealed /\ ~b[<<nr, nc>>].hasMine
             THEN LET b1 == [b EXCEPT ![<<nr, nc>>].revealed = TRUE]
                      b2 == IF b1[<<nr, nc>>].nearbyMines = 0
                            THEN RevealInOrder(ords, b1, nr, nc, 1)
                            ELSE b1
                  IN  RevealInOrder(ords, b2, row, col, k + 1)
             ELSE RevealInOrder(ords, b, row, col, k + 1)

\* C18: while Playing, for a left click on any hidden, unflagged safe cell
\* with nearbyMines = 0, the set of cells revealed at the end of the frame
\* is the set the cascade reveals under each of the visiting disciplines of
\* VisitOrders (the source's row-major dr/dc order being one more).
C18_CascadeConfluent ==
    Playing =>
        \A cell \in Cells :
            (/\ ~board[cell].hasMine /\ ~board[cell].revealed /\ ~board[cell].flagged
             /\ board[cell].nearbyMines = 0) =>
                LET s == Frame(State, PointAt(cell), TRUE, FALSE)
                    b1 == [board EXCEPT ![cell].revealed = TRUE]
                IN  \A ords \in VisitOrders :
                        Shown(RevealInOrder(ords, b1, cell[1], cell[2], 1)) = Shown(s.board)

\* A cascade that had a choice of ways: two adjacent revealed zero-count
\* cells sharing a revealed numbered neighbour, in a game that is still on.
C18_Witness ==
    /\ Playing
    /\ \E z1, z2, n \in Cells :
          /\ Adjacent(z1, z2) /\ Adjacent(z1, n) /\ Adjacent(z2, n)
          /\ board[z1].revealed /\ ~board[z1].hasMine /\ board[z1].nearbyMines = 0
          /\ board[z2].revealed /\ ~board[z2].hasMine /\ board[z2].nearbyMines = 0
          /\ board[n].revealed /\ board[n].nearbyMines > 0
    /\ \E h \in Cells \ Mined(board) : ~board[h].revealed

\* ---------------------------------------------------------------- C19
\* C19: on every board the game loop can hold, RevealAllMines leaves every
\* mined cell revealed, leaves flagged, hasMine and nearbyMines of every
\* cell and revealed of every safe cell as they were, and applied to its
\* own result changes nothing.
C19_RevealAllMinesFrame ==
    pc = "loop" =>
        LET b == RevealAllMines(board)
        IN  /\ \A cell \in Cells :
                  /\ b[cell].hasMine => b[cell].revealed
                  /\ ~b[cell].hasMine => b[cell].revealed = board[cell].revealed
                  /\ b[cell].flagged = board[cell].flagged
                  /\ b[cell].hasMine = board[cell].hasMine
                  /\ b[cell].nearbyMines = board[cell].nearbyMines
            /\ RevealAllMines(b) = b

\* A lost game: RevealAllMines has shown a mine that carries a flag and
\* has left a safe cell hidden.
C19_Witness ==
    /\ pc = "loop" /\ gameOver
    /\ \E m \in Mined(board) : board[m].revealed /\ board[m].flagged
    /\ \E c \in Cells \ Mined(board) : ~board[c].revealed

\* ---------------------------------------------------------------- C20
\* C20: gameOver and win are never both set, and while Playing the frame
\* with a left click on a mined cell (its win check runs right after the
\* click, with or without a right click in between) does not end with both.
C20_WonLostExclusive ==
    pc = "loop" =>
        /\ ~(gameOver /\ win)
        /\ Playing =>
              \A cell \in Mined(board), right \in BOOLEAN :
                  LET s == Frame(State, PointAt(cell), TRUE, right)
                  IN  ~(s.gameOver /\ s.win)

\* A game lost one cell short of winning: the win check of the losing
\* frame counted ROWS*COLS - MINES - 1 revealed safe cells.
C20_Witness ==
    /\ pc = "loop" /\ gameOver /\ ~win
    /\ RevealedCount(board) = ROWS * COLS - MINES - 1

\* ---------------------------------------------------------------- C21
\* C21: at the end of every frame either gameOver is set and every mined
\* cell is revealed, or gameOver is not set and no mined cell is revealed.
C21_MinesAllOrNone ==
    pc = "loop" =>
        IF gameOver
        THEN \A m \in Mined(board) : board[m].revealed
        ELSE \A m \in Mined(board) : ~board[m].revealed

\* A game lost on the first reveal: the clicked mine and the other mine,
\* which carries a flag, are shown and no safe cell is.
C21_Witness ==
    /\ pc = "loop" /\ gameOver
    /\ Shown(board) = Mined(board)
    /\ \E m \in Mined(board) : board[m].flagged

\* ---------------------------------------------------------------- C22
\* C22: at the end of every frame, every in-bounds 8-neighbour of a
\* revealed safe cell with nearbyMines = 0 is revealed, flagged or not.
C22_CascadeClosure ==
    pc = "loop" =>
        \A z \in Cells :
            (board[z].revealed /\ ~board[z].hasMine /\ board[z].nearbyMines = 0) =>
                \A n \in Cells : Adjacent(z, n) => board[n].revealed

\* A cascade has gone over a flag: a revealed zero-count safe cell with a
\* flagged neighbour, in a game that is still on.
C22_Witness ==
    /\ Playing
    /\ \E z, n \in Cells :
          /\ board[z].revealed /\ ~board[z].hasMine /\ board[z].nearbyMines = 0
          /\ Adjacent(z, n) /\ board[n].flagged

\* ---------------------------------------------------------------- C23
\* C23: while Playing, a left click that changes the board either sets
\* gameOver or leaves strictly more safe cells revealed than before; and
\* the number of passes of the loop that have revealed a cell never
\* exceeds ROWS*COLS - MINES (it is at most the number of revealed safe
\* cells, plus one for the pass that lost the game).
C23_BoundedProgress ==
    pc = "loop" =>
        /\ reveals <= ROWS * COLS - MINES
        /\ reveals <= RevealedCount(board) + (IF gameOver THEN 1 ELSE 0)
        /\ Playing =>
              \A m \in MousePoints :
                  LET s == Frame(State, m, TRUE, FALSE)
                  IN  s.board # board =>
                          \/ s.gameOver
                          \/ RevealedCount(s.board) > RevealedCount(board)

\* The longest game: ROWS*COLS - MINES passes have revealed a cell, the
\* last of them the mine that lost it.
C23_Witness ==
    /\ pc = "loop" /\ gameOver
    /\ reveals = ROWS * COLS - MINES

=============================================================================
